---- MODULE Spec2Model ----
(***************************************************************************)
(* LeDaViStool.py: the canonicalizer (Transformer T), the entity indexer   *)
(* (explore_data) and the graph builder (add_node, make_graph_complete,    *)
(* make_graph_entity), as a state machine.                                 *)
(*                                                                         *)
(* Python values are records [kind, text, kids]:                           *)
(*   kind "Token"          a lark Token (a str subclass), text its value   *)
(*   kind "str"            a plain str                                     *)
(*   kind "int" / "float"  a number, text what str() prints for it         *)
(*   kind "list" / "tuple" kids its elements                               *)
(*   kind "Tree"           a lark Tree, text its rule name, kids children  *)
(* Parse-tree nodes of the grammar are records of the same shape, kind the *)
(* grammar rule or terminal.                                               *)
(***************************************************************************)
EXTENDS Integers, Sequences, FiniteSets, TLC

VARIABLES
    pc,            \* where the run is
    data_tree,     \* explore_data: the entity instances read so far, the
                   \*   children of the data section up to the current one
    objects,       \* explore_data: the defaultdict(list), in insertion order;
                   \*   the graph builder's `data` is this same object
    error,         \* the exception that ended the run, or NoError
    returned,      \* what explore_data returned (the keys and instances then)
    entity,        \* make_graph: the requested root id, "" for a complete graph
    net,           \* the pyvis Network: node ids in order, node map, edges
    it,            \* the position of the running `for` loops
    nodes,         \* make_graph_entity: defaultdict(set), in insertion order
    entities,      \* make_graph_entity: the current frontier
    new_entities,  \* make_graph_entity: the next frontier
    todo           \* make_graph_entity: what `for curr_entity in entities`
                   \*   has not yielded yet

vars == <<pc, data_tree, objects, error, returned, entity, net, it, nodes, entities,
          new_entities, todo>>

-----------------------------------------------------------------------------
(* Bounds and input universes *)

MaxEntities == 3      \* entity instances in a data section
MaxRefs == 2          \* parameters of a plain parameter list

Ids == {"#1", "#2"}              \* ids an entity instance may carry
RefIds == {"#1", "#2", "#3"}     \* ids a parameter or a request may name
Keywords == {"FOO", "CARTESIAN_POINT"}

-----------------------------------------------------------------------------
(* Values *)

Val(k, t, c) == [kind |-> k, text |-> t, kids |-> c]

Token(s)   == Val("Token", s, <<>>)
PyStr(s)   == Val("str", s, <<>>)
PyInt(s)   == Val("int", s, <<>>)
PyFloat(s) == Val("float", s, <<>>)
PyList(c)  == Val("list", "", c)
PyTuple(c) == Val("tuple", "", c)
Tree(d, c) == Val("Tree", d, c)

\* what str(int(text)) and str(float(text)) print, for the literals used
IntStr(text) ==
    CASE text = "+7" -> "7"
      [] text = "007" -> "7"
      [] OTHER -> text

FloatStr(text) ==
    CASE text = "1." -> "1.0"
      [] text = "-2.5E1" -> "-25.0"
      [] OTHER -> text

-----------------------------------------------------------------------------
(* Parse trees of parameters and records, as the grammar builds them *)

IdParam(r)       == Val("id", r, <<>>)
StringParam(s)   == Val("string", s, <<>>)
IntParam(s)      == Val("INT", s, <<>>)
RealParam(s)     == Val("REAL", s, <<>>)
NoneParam        == Val("NONE", "$", <<>>)
StarParam        == Val("omitted_parameter", "*", <<>>)
EnumParam(k)     == Val("enumeration", k, <<>>)
\* binary: the radix digit is an anonymous string, the HEX digits are kids
BinaryParam(d, hex) ==
    Val("binary", d, [k \in 1..Len(hex) |-> Val("HEX", hex[k], <<>>)])
ListParam(c)     == Val("list", "", c)
TypedParam(k, p) == Val("typed_parameter", k, <<p>>)
TypedEmpty       == Val("typed_parameter", "", <<>>)

\* simple_record: keyword "(" parameter_list? ")"; no parameters, no list
SimpleRecord(k, params) == Val("simple_record", k, params)

\* entity_instance: id "=" simple_record ";"  or  id "=" "(" simple_record+ ")" ";"
SubsuperRecord(members) == Val("subsuper_record", "", members)
EntityInstance(id, record) == [id |-> id, record |-> record]

-----------------------------------------------------------------------------
(* Transformer T: bottom-up, s the transformed children of the node *)

T_id(s) == s[1]
T_string(text) == PyStr(text)          \* "".join(s)
T_keyword(text) == PyStr(text)         \* "".join(s)
T_untyped_parameter(s) == IF Len(s) > 0 THEN s[1] ELSE PyStr("")
T_typed_parameter(s) == IF Len(s) > 0 THEN s[1] ELSE PyStr("")
T_parameter(s) == IF Len(s) > 0 THEN s[1] ELSE PyStr("")
T_omitted_parameter(s) == s[1]
T_enumeration(s) == s[1]
T_INT(text) == PyInt(IntStr(text))
T_REAL(text) == PyFloat(FloatStr(text))
T_NONE(text) == PyStr(text)
T_STAR(text) == PyStr(text)

RECURSIVE Transform(_)
Transform(p) ==
    LET sub == [j \in 1..Len(p.kids) |-> Transform(p.kids[j])]
        untyped(v) == T_parameter(<<T_untyped_parameter(<<v>>)>>)
    IN  CASE p.kind = "id" -> untyped(T_id(<<Token(p.text)>>))
          [] p.kind = "string" -> untyped(T_string(p.text))
          [] p.kind = "NONE" -> untyped(T_NONE(p.text))
          [] p.kind = "INT" -> untyped(T_INT(p.text))
          [] p.kind = "REAL" -> untyped(T_REAL(p.text))
          [] p.kind = "enumeration" ->
                untyped(T_enumeration(<<T_keyword(p.text)>>))
          \* no callback for HEX or binary: the tokens and the Tree stay
          [] p.kind = "HEX" -> Token(p.text)
          [] p.kind = "binary" -> untyped(Tree("binary", sub))
          [] p.kind = "list" -> untyped(PyList(sub))
          [] p.kind = "omitted_parameter" ->
                T_parameter(<<T_omitted_parameter(<<T_STAR(p.text)>>)>>)
          [] p.kind = "typed_parameter" ->
                T_parameter(<<T_typed_parameter(
                    IF Len(p.kids) > 0 THEN <<T_keyword(p.text)>> \o sub
                    ELSE <<>>)>>)
          [] p.kind = "simple_record" ->
                PyTuple(<<T_keyword(p.text)>> \o
                        (IF Len(p.kids) > 0 THEN <<PyTuple(sub)>> ELSE <<>>))
          [] p.kind = "subsuper_record" -> PyTuple(<<PyTuple(sub)>>)

-----------------------------------------------------------------------------
(* explore_data *)

RECURSIVE explode_object(_, _), explode_children(_, _, _, _)
explode_children(c, k, a, refs) ==
    IF k > Len(c) THEN [a |-> a, refs |-> refs]
    ELSE LET r == explode_object(c[k], refs)
         IN  explode_children(c, k + 1, Append(a, r.a), r.refs)

\* returns the exploded value a and the refs list after the appends
explode_object(t, refs) ==
    IF t.kind \in {"list", "tuple"} THEN
        LET r == explode_children(t.kids, 1, <<>>, refs)
        IN  [a |-> PyList(r.a), refs |-> r.refs]
    ELSE IF t.kind = "Tree" THEN
        LET r == explode_children(t.kids, 1, <<>>, refs)
        IN  [a |-> PyList(r.a), refs |-> r.refs]
    ELSE IF t.kind = "Token" THEN
        [a |-> PyStr(t.text), refs |-> Append(refs, t.text)]
    ELSE
        [a |-> PyStr(t.text), refs |-> refs]

\* a dict in insertion order: a sequence of [key, val]
Keys(d) == {d[k].key : k \in 1..Len(d)}
Index(d, key) == CHOOSE k \in 1..Len(d) : d[k].key = key
\* defaultdict.__getitem__: a missing key is inserted with the default
Touch(d, key, default) ==
    IF key \in Keys(d) THEN d ELSE Append(d, [key |-> key, val |-> default])
Get(d, key) == d[Index(d, key)].val
Put(d, key, v) == [d EXCEPT ![Index(d, key)].val = v]

NoError == [type |-> "", name |-> "", linenumbers |-> <<>>]
DuplicateNameError(name, linenumbers) ==
    [type |-> "duplicate_name", name |-> name, linenumbers |-> linenumbers]
\* DuplicateNameError.asdict()["lineno"]
lineno(e) == e.linenumbers[1]

\* the line of the k-th entity instance of the data section: one instance a
\* line, after the line of "DATA;"
LineOf(k) == k + 1

\* lines_range of the entity being read: only its id Token is found by traverse
lines_range(k) == <<LineOf(k), LineOf(k)>>

\* mutant of IsDuplicate: the check is left out
IsDuplicate_unchecked(d, id) == FALSE

\* `if objects[id]:` the instance list is non-empty
IsDuplicate(d, id) == Len(Get(d, id)) > 0

\* one turn of `for entity in data_tree.children`
ExploreEntity(e) ==
    /\ pc = "explore_data"
    /\ Len(data_tree) < MaxEntities
    /\ data_tree' = Append(data_tree, e)
    /\ LET k == Len(data_tree) + 1
           id == e.id
           record == Transform(e.record)
           x == explode_object(record, <<>>)
           touched == Touch(objects, id, <<>>)
           object == [body |-> x.a, refs |-> x.refs, lines |-> lines_range(k)]
       IN  IF IsDuplicate(touched, id)
           THEN /\ objects' = touched
                /\ error' = DuplicateNameError(id, lines_range(k))
                /\ pc' = "DuplicateNameError"
           ELSE /\ objects' = Put(touched, id, Append(Get(touched, id), object))
                /\ error' = error
                /\ pc' = pc
    /\ UNCHANGED <<returned, entity, net, it, nodes, entities, new_entities,
                   todo>>

\* the data section ends: `return objects`, and explore_model, parse, read
\* hand it on
ExploreReturn ==
    /\ pc = "explore_data"
    /\ returned' = objects
    /\ pc' = "make_graph"
    /\ UNCHANGED <<data_tree, objects, error, entity, net, it, nodes, entities,
                   new_entities, todo>>

-----------------------------------------------------------------------------
(* add_node *)

ENTRY_NODE_COLOR == "indigo"
FAILURE_NODE_COLOR == "red"

NODE_COLOR ==
    [k \in {"CARTESIAN_POINT", "PCURVE", "B_SPLINE_CURVE_WITH_KNOTS",
            "B_SPLINE_SURFACE_WITH_KNOTS", "IFCCARTESIANPOINT", "IFCPOLYLINE",
            "IFCSHAPEREPRESENTATION"} |->
        CASE k = "CARTESIAN_POINT" -> "lightgrey"
          [] k = "PCURVE" -> "orange"
          [] k = "B_SPLINE_CURVE_WITH_KNOTS" -> "palegreen"
          [] k = "B_SPLINE_SURFACE_WITH_KNOTS" -> "darkkhaki"
          [] k = "IFCCARTESIANPOINT" -> "lightgrey"
          [] k = "IFCPOLYLINE" -> "orange"
          [] k = "IFCSHAPEREPRESENTATION" -> "darkkhaki"]

\* len(color) == 0: the empty string, or the empty dict simple_entity gives a
\* keyword that is not in NODE_COLOR
NoColor(color) == color \in {"", "{}"}

\* the Network: nodes in insertion order, each [id, title, color] (color ""
\* when the node has no 'color' entry), and the edges in insertion order
EmptyNet == [nodes |-> <<>>, edges |-> <<>>]
NodeIds(g) == {g.nodes[k].id : k \in 1..Len(g.nodes)}
num_nodes(g) == Len(g.nodes)
net_add_node(g, n) ==
    IF n \in NodeIds(g) THEN g
    ELSE [g EXCEPT !.nodes = Append(@, [id |-> n, title |-> <<>>, color |-> ""])]
NodeIndex(g, n) == CHOOSE k \in 1..Len(g.nodes) : g.nodes[k].id = n
get_node(g, n) == g.nodes[NodeIndex(g, n)]
net_add_edge(g, from, to) == [g EXCEPT !.edges = Append(@, <<from, to>>)]

\* to_str: the text as the sequence of the pieces it is concatenated from
RECURSIVE to_str(_), to_str_items(_, _)
to_str_items(c, k) ==
    IF k > Len(c) THEN <<>>
    ELSE LET s == to_str(c[k])
             piece == IF s = <<"">> THEN <<"''">> ELSE s
         IN  (IF k > 1 THEN <<", ">> ELSE <<>>) \o piece \o to_str_items(c, k + 1)

to_str(object) ==
    IF object.kind = "str" THEN <<object.text>>
    ELSE <<"(">> \o to_str_items(object.kids, 1) \o <<")">>

\* mutant of simple_entity: the table is looked up whatever color is passed
simple_entity_table_first(body, color) ==
    LET keyword == body.kids[1].text
        name == <<keyword>> \o
                (IF Len(body.kids) > 1 THEN to_str(body.kids[2]) ELSE <<"()">>)
    IN  [name |-> name,
         color |-> IF keyword \in DOMAIN NODE_COLOR
                   THEN NODE_COLOR[keyword] ELSE color]

\* simple_entity(body, color): the name (the text is shorter than
\* SPLIT_STRING_SIZE, so textwrap.wrap leaves it in one piece) and the color
simple_entity(body, color) ==
    LET keyword == body.kids[1].text
        name == <<keyword>> \o
                (IF Len(body.kids) > 1 THEN to_str(body.kids[2]) ELSE <<"()">>)
    IN  [name |-> name,
         color |-> IF NoColor(color)
                   THEN (IF keyword \in DOMAIN NODE_COLOR
                         THEN NODE_COLOR[keyword] ELSE "{}")
                   ELSE color]

\* mutant of entity_members: only the first member record gives the color
RECURSIVE entity_members_leading_only(_, _, _, _)
entity_members_leading_only(members, k, title, color) ==
    IF k > Len(members) THEN [title |-> title, color |-> color]
    ELSE LET r == simple_entity(members[k], color)
         IN  entity_members_leading_only(members, k + 1,
                 title \o (IF Len(title) > 0 THEN <<"<br>">> ELSE <<>>) \o r.name,
                 IF k = 1 THEN r.color ELSE color)

\* `for x in body[0]` of a complex record
RECURSIVE entity_members(_, _, _, _)
entity_members(members, k, title, color) ==
    IF k > Len(members) THEN [title |-> title, color |-> color]
    ELSE LET r == simple_entity(members[k], color)
         IN  entity_members(members, k + 1,
                 title \o (IF Len(title) > 0 THEN <<"<br>">> ELSE <<>>) \o r.name,
                 r.color)

\* `for object in data[node]`
RECURSIVE entity_objects(_, _, _, _)
entity_objects(objs, k, title, color) ==
    IF k > Len(objs) THEN [title |-> title, color |-> color]
    ELSE LET body == objs[k].body
             r == IF body.kids[1].kind = "str"
                  THEN LET x == simple_entity(body, color)
                       IN  [title |-> x.name, color |-> x.color]
                  ELSE entity_members(body.kids[1].kids, 1, title, color)
         IN  entity_objects(objs, k + 1, r.title, r.color)

\* mutant of initial_color: force_color is not looked at
initial_color_ignoring_force(g, force_color) ==
    IF num_nodes(g) = 0 THEN ENTRY_NODE_COLOR ELSE ""

\* the color add_node starts from
initial_color(g, force_color) ==
    IF Len(force_color) > 0 THEN force_color
    ELSE IF num_nodes(g) = 0 THEN ENTRY_NODE_COLOR
    ELSE ""

\* the index after `data[node]`: a defaultdict inserts the missing key
data_lookup(data, node) == Touch(data, node, <<>>)

\* add_node(net, node, data, force_color): the net and the data after it
add_node(g, node, data, force_color) ==
    LET node_color == initial_color(g, force_color)
        g1 == net_add_node(g, node)
        data1 == data_lookup(data, node)
        r == entity_objects(Get(data1, node), 1, <<>>, node_color)
        k == NodeIndex(g1, node)
    IN  [net |-> [g1 EXCEPT !.nodes[k].title = r.title,
                            !.nodes[k].color =
                                IF NoColor(r.color) THEN @ ELSE r.color],
         data |-> data1]

-----------------------------------------------------------------------------
(* make_graph, make_graph_complete, make_graph_entity *)

RuntimeError ==
    [type |-> "RuntimeError: dictionary changed size during iteration",
     name |-> "", linenumbers |-> <<>>]

NoIt == [n |-> 0, r |-> 0, used |-> 0, rest |-> {}]

\* `for object in data[node]: for ref in object[REFS_TAG]`, flattened
RECURSIVE object_refs(_, _)
object_refs(objs, k) ==
    IF k > Len(objs) THEN <<>> ELSE objs[k].refs \o object_refs(objs, k + 1)

\* the dict iterator's check before it yields or stops
changed_size(d, used) == Len(d) # used

\* make_graph with an empty entity: make_graph_complete starts
MakeGraphComplete ==
    /\ pc = "make_graph"
    /\ entity' = ""
    /\ net' = EmptyNet
    /\ it' = [NoIt EXCEPT !.used = Len(objects)]
    /\ pc' = "complete_nodes"
    /\ UNCHANGED <<data_tree, objects, error, returned, nodes, entities, new_entities,
                   todo>>

\* one turn of the first `for node in data`
CompleteNode ==
    /\ pc = "complete_nodes"
    /\ IF changed_size(objects, it.used) THEN
           /\ pc' = "RuntimeError"
           /\ error' = RuntimeError
           /\ UNCHANGED <<objects, net, it>>
       ELSE IF it.n = Len(objects) THEN
           \* the loop ends, the second `for node in data` starts
           /\ pc' = "complete_edges"
           /\ it' = [NoIt EXCEPT !.used = Len(objects)]
           /\ UNCHANGED <<objects, net, error>>
       ELSE
           LET r == add_node(net, objects[it.n + 1].key, objects, "")
           IN  /\ net' = r.net
               /\ objects' = r.data
               /\ it' = [it EXCEPT !.n = @ + 1]
               /\ UNCHANGED <<pc, error>>
    /\ UNCHANGED <<data_tree, returned, entity, nodes, entities, new_entities, todo>>

\* the refs the inner loops of the second pass go through for node it.n
CurrentRefs == IF it.n = 0 THEN <<>> ELSE object_refs(objects[it.n].val, 1)

\* the second `for node in data` asks its iterator for the next node
CompleteNextNode ==
    /\ pc = "complete_edges"
    /\ it.r = Len(CurrentRefs)
    /\ IF changed_size(objects, it.used) THEN
           /\ pc' = "RuntimeError"
           /\ error' = RuntimeError
           /\ it' = it
       ELSE IF it.n = Len(objects) THEN
           /\ pc' = "done"
           /\ UNCHANGED <<error, it>>
       ELSE
           /\ it' = [it EXCEPT !.n = @ + 1, !.r = 0]
           /\ UNCHANGED <<pc, error>>
    /\ UNCHANGED <<data_tree, objects, returned, entity, net, nodes, entities,
                   new_entities, todo>>

\* one turn of `for ref in object[REFS_TAG]`
CompleteEdge ==
    /\ pc = "complete_edges"
    /\ it.r < Len(CurrentRefs)
    /\ LET node == objects[it.n].key
           ref == CurrentRefs[it.r + 1]
           r == IF ref \notin Keys(objects)
                THEN add_node(net, ref, objects, FAILURE_NODE_COLOR)
                ELSE [net |-> net, data |-> objects]
       IN  /\ net' = net_add_edge(r.net, node, ref)
           /\ objects' = r.data
           /\ it' = [it EXCEPT !.r = @ + 1]
    /\ UNCHANGED <<pc, data_tree, error, returned, entity, nodes, entities,
                   new_entities, todo>>

\* make_graph with an entity: make_graph_entity starts
MakeGraphEntity(root) ==
    /\ pc = "make_graph"
    /\ entity' = root
    /\ net' = EmptyNet
    /\ nodes' = <<>>
    /\ entities' = {root}
    /\ pc' = "entity_while"
    /\ UNCHANGED <<data_tree, objects, error, returned, it, new_entities, todo>>

\* `while len(entities) > 0`
EntityWhile ==
    /\ pc = "entity_while"
    /\ IF Cardinality(entities) > 0 THEN
           /\ new_entities' = {}
           /\ todo' = entities
           /\ pc' = "entity_for"
           /\ it' = it
       ELSE
           \* `for node in nodes` starts
           /\ pc' = "entity_edges"
           /\ it' = [NoIt EXCEPT !.used = Len(nodes)]
           /\ UNCHANGED <<new_entities, todo>>
    /\ UNCHANGED <<data_tree, objects, error, returned, entity, net, nodes, entities>>

\* mutant of visited: the guard is left out
visited_never(d, curr_entity) == FALSE

\* `if curr_entity in nodes: continue`
visited(d, curr_entity) == curr_entity \in Keys(d)

\* mutant of add_refs: the loop stops after the first ref
add_refs_first_only(set, refs, k) ==
    IF Len(refs) = 0 THEN set ELSE set \cup {refs[1]}

\* `nodes[curr_entity].add(ref)` for every ref: the outgoing set
RECURSIVE add_refs(_, _, _)
add_refs(set, refs, k) ==
    IF k > Len(refs) THEN set ELSE add_refs(set \cup {refs[k]}, refs, k + 1)

\* one turn of `for curr_entity in entities`; a set yields in any order
EntityVisit(curr_entity) ==
    /\ pc = "entity_for"
    /\ curr_entity \in todo
    /\ todo' = todo \ {curr_entity}
    /\ IF visited(nodes, curr_entity) THEN
           UNCHANGED <<objects, net, nodes, new_entities>>
       ELSE
           LET nodes1 == Touch(nodes, curr_entity, {})
           IN  IF curr_entity \in Keys(objects) THEN
                   LET r == add_node(net, curr_entity, objects, "")
                       refs == object_refs(Get(r.data, curr_entity), 1)
                   IN  /\ net' = r.net
                       /\ objects' = r.data
                       /\ nodes' = Put(nodes1, curr_entity,
                                       add_refs(Get(nodes1, curr_entity), refs, 1))
                       /\ new_entities' = add_refs(new_entities, refs, 1)
               ELSE
                   LET r == add_node(net, curr_entity, objects, FAILURE_NODE_COLOR)
                   IN  /\ net' = r.net
                       /\ objects' = r.data
                       /\ nodes' = nodes1
                       /\ new_entities' = new_entities
    /\ UNCHANGED <<pc, data_tree, error, returned, entity, it, entities>>

\* the for loop is through: `entities = new_entities`
EntityForEnd ==
    /\ pc = "entity_for"
    /\ todo = {}
    /\ entities' = new_entities
    /\ pc' = "entity_while"
    /\ UNCHANGED <<data_tree, objects, error, returned, entity, net, it, nodes,
                   new_entities, todo>>

\* `for node in nodes` asks for the next node
EntityNextNode ==
    /\ pc = "entity_edges"
    /\ it.rest = {}
    /\ IF it.n = Len(nodes) THEN
           /\ pc' = "done"
           /\ it' = it
       ELSE
           /\ it' = [it EXCEPT !.n = @ + 1, !.rest = nodes[it.n + 1].val]
           /\ pc' = pc
    /\ UNCHANGED <<data_tree, objects, error, returned, entity, net, nodes, entities,
                   new_entities, todo>>

\* one turn of `for ref in nodes[node]`; a set yields in any order
EntityEdge(ref) ==
    /\ pc = "entity_edges"
    /\ ref \in it.rest
    /\ net' = net_add_edge(net, nodes[it.n].key, ref)
    /\ it' = [it EXCEPT !.rest = @ \ {ref}]
    /\ UNCHANGED <<pc, data_tree, objects, error, returned, entity, nodes, entities,
                   new_entities, todo>>

-----------------------------------------------------------------------------
(* The files and requests explored *)

\* parameter lists of up to MaxRefs references
RefParamLists ==
    UNION {[1..n -> {IdParam(r) : r \in RefIds}] : n \in 0..MaxRefs}

\* parameter lists with the other kinds of parameter
OtherParamLists ==
    { <<ListParam(<<IdParam("#2"), ListParam(<<IdParam("#3"), IdParam("#2")>>)>>)>>,
      <<TypedParam("IFCLABEL", IdParam("#2"))>>,
      <<IdParam("#3"), TypedParam("IFCREAL", RealParam("1.")), IdParam("#2")>>,
      <<BinaryParam("1", <<"A", "F">>)>>,
      <<StringParam("x"), IntParam("+7"), NoneParam, StarParam, EnumParam("T"),
        TypedEmpty, ListParam(<<>>), StringParam("")>> }

SimpleRecords ==
    {SimpleRecord("FOO", p) : p \in RefParamLists \cup OtherParamLists}
    \cup {SimpleRecord("CARTESIAN_POINT", p) : p \in {<<>>} \cup
              {<<IdParam(r)>> : r \in RefIds}}

\* complex records of two member records
ComplexRecords ==
    {SubsuperRecord(<<SimpleRecord(a, <<IdParam("#2")>>), SimpleRecord(b, p)>>) :
        a \in Keywords, b \in Keywords, p \in {<<>>, <<IdParam("#3")>>}}

EntityInstances ==
    {EntityInstance(id, r) : id \in Ids, r \in SimpleRecords \cup ComplexRecords}

-----------------------------------------------------------------------------

Init ==
    /\ pc = "explore_data"
    /\ data_tree = <<>>
    /\ objects = <<>>
    /\ error = NoError
    /\ returned = <<>>
    /\ entity = ""
    /\ net = EmptyNet
    /\ it = NoIt
    /\ nodes = <<>>
    /\ entities = {}
    /\ new_entities = {}
    /\ todo = {}

Next ==
    \/ \E e \in EntityInstances : ExploreEntity(e)
    \/ ExploreReturn
    \/ MakeGraphComplete
    \/ CompleteNode
    \/ CompleteNextNode
    \/ CompleteEdge
    \/ \E root \in RefIds : MakeGraphEntity(root)
    \/ EntityWhile
    \/ \E curr_entity \in todo : EntityVisit(curr_entity)
    \/ EntityForEnd
    \/ \E ref \in it.rest : EntityEdge(ref)
    \/ EntityNextNode

Spec == Init /\ [][Next]_vars

-----------------------------------------------------------------------------
(* Notions the properties are stated with *)

Range(f) == {f[k] : k \in 1..Len(f)}

\* the ids with an indexed instance in index d
Indexed(d) == {key \in Keys(d) : Len(Get(d, key)) > 0}

\* the refs list of indexed id n in index d
RefsOf(d, n) == object_refs(Get(d, n), 1)

\* the references #id written in a parse tree, in order of appearance
RECURSIVE WrittenRefs(_), WrittenRefsFrom(_, _)
WrittenRefsFrom(c, k) ==
    IF k > Len(c) THEN <<>> ELSE WrittenRefs(c[k]) \o WrittenRefsFrom(c, k + 1)

WrittenRefs(p) ==
    IF p.kind = "id" THEN <<p.text>> ELSE WrittenRefsFrom(p.kids, 1)

\* the entity instances of data_tree that were indexed: all but a duplicate
IndexedInstances ==
    {k \in 1..Len(data_tree) :
        ~(pc = "DuplicateNameError" /\ k = Len(data_tree))}

\* the ids reachable from the ids of S over the refs of index d
RECURSIVE Reach(_, _)
Reach(d, S) ==
    LET N == S \cup UNION {Range(RefsOf(d, n)) : n \in S \cap Indexed(d)}
    IN  IF N = S THEN S ELSE Reach(d, N)

\* the keywords of the member records of a body, in order
MemberKeywords(body) ==
    IF body.kids[1].kind = "str" THEN <<body.kids[1].text>>
    ELSE [k \in 1..Len(body.kids[1].kids) |-> body.kids[1].kids[k].kids[1].text]

TableColor(keyword) ==
    IF keyword \in DOMAIN NODE_COLOR THEN NODE_COLOR[keyword] ELSE ""

\* the color of the first keyword of kws that the table has, "" if none
FirstTableColor(kws) ==
    LET hits == {k \in 1..Len(kws) : kws[k] \in DOMAIN NODE_COLOR}
    IN  IF hits = {} THEN ""
        ELSE NODE_COLOR[kws[CHOOSE k \in hits : \A j \in hits : k <= j]]

InComplete == entity = "" /\
    pc \in {"complete_nodes", "complete_edges", "done", "RuntimeError"}
InEntity == pc \in {"entity_while", "entity_for", "entity_edges"}
GraphEnded == pc \in {"done", "RuntimeError"}

\* the nodes of the net that were inserted without an override color: not the
\* first one, and not one for an id without an indexed instance
PlainNodes ==
    {k \in 2..Len(net.nodes) : net.nodes[k].id \in Indexed(returned)}

-----------------------------------------------------------------------------
(* C1 *)

\* C1: reading an entity instance whose id already has an indexed instance
\* raises DuplicateNameError with that id as name and the line of this second
\* occurrence as lineno, whatever the bodies; no other read raises; the index
\* keeps its keys and instances in the raising step; nothing happens after
\* the raise and no model is returned.
C1_DuplicateRaises ==
    [][/\ pc # "DuplicateNameError"
       /\ (pc = "explore_data" /\ Len(data_tree') = Len(data_tree) + 1) =>
            LET e == data_tree'[Len(data_tree')]
                seen == e.id \in Indexed(objects)
            IN  /\ seen <=> pc' = "DuplicateNameError"
                /\ ~seen => error' = NoError
                /\ seen =>
                    /\ error'.type = "duplicate_name"
                    /\ error'.name = e.id
                    /\ lineno(error') = LineOf(Len(data_tree'))
                    /\ objects' = objects
                    /\ returned' = <<>>
                    /\ net' = EmptyNet
      ]_vars

\* a third instance repeats the id of the first, with the same body
C1_Witness ==
    /\ pc = "DuplicateNameError"
    /\ Len(data_tree) = 3
    /\ data_tree[3] = data_tree[1]
    /\ error.name = "#1"
    /\ lineno(error) = LineOf(3)

-----------------------------------------------------------------------------
(* C2 *)

\* the (node, ref) pairs of index d whose ref has no indexed instance
DanglingRefs(d) ==
    UNION {{<<n, k>> : k \in {j \in 1..Len(RefsOf(d, n)) :
                                RefsOf(d, n)[j] \notin Indexed(d)}} :
           n \in Indexed(d)}

\* C2: a complete graph of a model with dangling references is built to the
\* end, with a failure-colored node for each dangling id and one edge for
\* each reference to it.
C2_DanglingComplete ==
    (entity = "" /\ GraphEnded /\ DanglingRefs(returned) # {}) =>
        /\ pc = "done"
        /\ \A x \in DanglingRefs(returned) :
            LET n == x[1]
                r == RefsOf(returned, n)[x[2]]
            IN  /\ r \in NodeIds(net)
                /\ get_node(net, r).color = FAILURE_NODE_COLOR
                /\ Cardinality({k \in 1..Len(net.edges) : net.edges[k] = <<n, r>>})
                     = Cardinality({k \in 1..Len(RefsOf(returned, n)) :
                                       RefsOf(returned, n)[k] = r})

-----------------------------------------------------------------------------
(* C3 *)

\* C3: building a graph leaves the index as explore_data returned it.
C3_ModelUnchanged ==
    (InComplete \/ InEntity \/ GraphEnded) => objects = returned

-----------------------------------------------------------------------------
(* C4 *)

\* s occurs in t as a subsequence: in order, keeping its duplicates
RECURSIVE IsSubsequence(_, _)
IsSubsequence(s, t) ==
    IF s = <<>> THEN TRUE
    ELSE IF t = <<>> THEN FALSE
    ELSE IF Head(s) = Head(t) THEN IsSubsequence(Tail(s), Tail(t))
    ELSE IsSubsequence(s, Tail(t))

\* C4: the refs list of every indexed instance contains every reference
\* written in its body (as a direct parameter, in a nested list, inside a
\* typed parameter, in a member record of a complex record), in order of
\* appearance, duplicates kept.
C4_RefsComplete ==
    \A k \in IndexedInstances :
        IsSubsequence(WrittenRefs(data_tree[k].record),
                      RefsOf(objects, data_tree[k].id))

-----------------------------------------------------------------------------
(* C10 *)

\* C10: every element of the refs list of an indexed instance is a reference
\* written in its body.
C10_RefsAreIds ==
    \A k \in IndexedInstances :
        Range(RefsOf(objects, data_tree[k].id))
            \subseteq Range(WrittenRefs(data_tree[k].record))

-----------------------------------------------------------------------------
(* C5 *)

\* every id a traversal can meet
AllIds ==
    {entity} \cup {objects[k].key : k \in 1..Len(objects)}
        \cup UNION {UNION {Range(objects[k].val[j].refs) :
                               j \in 1..Len(objects[k].val)} :
                        k \in 1..Len(objects)}

\* a measure of the work make_graph_entity has left: the ids not yet visited
\* weigh more than a whole frontier, the traversal more than the edge loops
Rank ==
    LET N == Cardinality(AllIds)
        unvisited == Cardinality(AllIds \ Keys(nodes))
        flag(S) == IF S = {} THEN 0 ELSE 1
        base == (N + 1) * (N + 1)
    IN  CASE pc = "entity_for" ->
                base + (N + 2) * (unvisited + flag(new_entities))
                     + Cardinality(todo) + 2
          [] pc = "entity_while" ->
                base + (N + 2) * (unvisited + flag(entities)) + 1
          [] pc = "entity_edges" ->
                (Len(nodes) - it.n) * (N + 1) + Cardinality(it.rest)
          [] OTHER -> 0 - 1

\* the model is the two-entity cycle: #1 references #2, #2 references #1
TwoCycle ==
    /\ Indexed(returned) = {"#1", "#2"}
    /\ Range(RefsOf(returned, "#1")) = {"#2"}
    /\ Range(RefsOf(returned, "#2")) = {"#1"}

\* C5: make_graph_entity terminates: every step it takes lowers Rank, which
\* never goes below -1, so no run stays in it for ever; a turn of the
\* traversal that meets a visited node expands nothing; and the two-entity
\* cycle rooted at #1 ends with exactly two nodes.
C5_EntityTerminates ==
    [][/\ InEntity => (Rank' < Rank /\ Rank' >= 0 - 1)
       /\ (pc = "entity_for" /\ Keys(nodes') = Keys(nodes)) =>
            (nodes' = nodes /\ net' = net /\ new_entities' = new_entities
             /\ objects' = objects)
       /\ (InEntity /\ pc' = "done" /\ TwoCycle /\ entity = "#1") =>
            (Len(net'.nodes) = 2 /\ NodeIds(net') = {"#1", "#2"})
      ]_vars

C5_Witness ==
    /\ pc = "done"
    /\ entity = "#1"
    /\ TwoCycle
    /\ Len(net.nodes) = 2

-----------------------------------------------------------------------------
(* C6 *)

\* the edges the reachable subgraph has
ReachEdges ==
    {<<n, r>> \in Reach(returned, {entity}) \X Reach(returned, {entity}) :
        n \in Indexed(returned) /\ r \in Range(RefsOf(returned, n))}

\* C6: the graph make_graph_entity ends with is the subgraph reachable from
\* the root: one node for each reachable id, failure-colored and without
\* outgoing edges when the id has no indexed instance, and one edge for each
\* pair (n, r) with n reachable and indexed and r in refs(n).
C6_ReachableSubgraph ==
    (pc = "done" /\ entity # "") =>
        /\ NodeIds(net) = Reach(returned, {entity})
        /\ Len(net.nodes) = Cardinality(NodeIds(net))
        /\ \A k \in 1..Len(net.nodes) :
              net.nodes[k].id \notin Indexed(returned) =>
                /\ net.nodes[k].color = FAILURE_NODE_COLOR
                /\ \A j \in 1..Len(net.edges) : net.edges[j][1] # net.nodes[k].id
        /\ Range(net.edges) = ReachEdges
        /\ Len(net.edges) = Cardinality(ReachEdges)

\* #1 names #2 twice and the dangling #3, #2 names #1: three nodes, three edges
C6_Witness ==
    /\ pc = "done"
    /\ entity = "#1"
    /\ Indexed(returned) = {"#1", "#2"}
    /\ RefsOf(returned, "#1") = <<"#2", "#2">>
    /\ RefsOf(returned, "#2") = <<"#3", "#1">>
    /\ Len(net.nodes) = 3
    /\ Len(net.edges) = 3

-----------------------------------------------------------------------------
(* C7 *)

\* C7: make_graph_entity with a root that has no indexed instance ends
\* without an error, with one node, the root, colored failure, and no edge.
C7_DanglingRoot ==
    (GraphEnded /\ entity # "" /\ entity \notin Indexed(returned)) =>
        /\ pc = "done"
        /\ error = NoError
        /\ Len(net.nodes) = 1
        /\ net.nodes[1].id = entity
        /\ net.nodes[1].color = FAILURE_NODE_COLOR
        /\ net.edges = <<>>

C7_Witness ==
    /\ pc = "done"
    /\ entity = "#3"
    /\ Indexed(returned) = {"#1", "#2"}
    /\ NodeIds(net) = {"#3"}

-----------------------------------------------------------------------------
(* C8 *)

\* C8: in a complete graph the first node inserted is colored entry, whatever
\* its keyword, and no later node is.
C8_EntryFirst ==
    (InComplete /\ Len(net.nodes) > 0) =>
        /\ net.nodes[1].color = ENTRY_NODE_COLOR
        /\ \A k \in 2..Len(net.nodes) : net.nodes[k].color # ENTRY_NODE_COLOR

\* the first entity's keyword is in the table, and a second node follows
C8_Witness ==
    /\ InComplete
    /\ Len(net.nodes) = 2
    /\ MemberKeywords(Get(returned, net.nodes[1].id)[1].body)
         = <<"CARTESIAN_POINT">>
    /\ net.nodes[1].color = ENTRY_NODE_COLOR

-----------------------------------------------------------------------------
(* C9 *)

\* C9 as claimed: a node inserted without an override color has the table
\* color of its leading keyword (for a complex record that of its first
\* member record), and no color when the table lacks it.
C9_LeadingKeywordColor ==
    \A k \in PlainNodes :
        net.nodes[k].color =
            TableColor(MemberKeywords(Get(returned, net.nodes[k].id)[1].body)[1])

\* C9 amended: a node inserted without an override color has the table color
\* of the first of its member records, in order, whose keyword is in the
\* table (for a simple record its one keyword), and no color when none is.
C9_FirstTabledKeywordColor ==
    \A k \in PlainNodes :
        net.nodes[k].color =
            FirstTableColor(MemberKeywords(Get(returned, net.nodes[k].id)[1].body))

\* a complex record whose second member only is in the table
C9_Witness ==
    \E k \in PlainNodes :
        /\ MemberKeywords(Get(returned, net.nodes[k].id)[1].body)
             = <<"FOO", "CARTESIAN_POINT">>
        /\ net.nodes[k].color = "lightgrey"

====
